---- MODULE Spec2Model ----
(***************************************************************************)
(* Model of the configurable web scraper: the engine of src/scraper.py     *)
(* (Scraper.__init__, login, scrape_page, save_data, run) and the          *)
(* front end of src/gui.py that runs it on a worker thread.                *)
(*                                                                         *)
(* A configuration is a record with one field per recognised key; the      *)
(* value None stands for an absent (or null) key, as config.get(key)       *)
(* returns it.  A Record (one scraped page) is [url, keys]: the page URL   *)
(* and the dict's keys in insertion order.  raw_include_text and           *)
(* login_required carry their defaults (True, False) when absent.          *)
(*                                                                         *)
(* Specifications: Spec (the engine under a direct caller), SpecGui and    *)
(* SpecGuiFair (the front end, each run abstracted to its outcome, without *)
(* and with fairness), SpecThread (one worker thread driving the engine),  *)
(* SpecImages (_extract_images on its own).                                *)
(***************************************************************************)
EXTENDS Integers, Sequences, FiniteSets, TLC

\* ------------------------------------------------------------------ bounds
MaxUrls == 2
MaxThreads == 2
MaxElems == 2
MaxSelectors == 2

None == "<None>"

SeqsUpTo(S, n) == UNION {[1..k -> S] : k \in 0..n}

Last(s) == s[Len(s)]

\* ---------------------------------------------------- configuration domain
\* "" is an empty URL, which run() skips.
UrlNames == {"", "a", "b"}

\* values of the session_cookies mapping, in order; <<>> is an absent or
\* empty mapping
CookieJars == {<<>>, <<"">>, <<"", "sid">>}

CompleteLogin ==
    [login_url |-> "http://x/login", login_username_field |-> "user",
     login_password_field |-> "pass", username |-> "u", password |-> "p"]

LoginConfigs ==
    {CompleteLogin, [CompleteLogin EXCEPT !.password = None],
     [CompleteLogin EXCEPT !.login_url = ""]}

AllSelectors ==
    [capture_mode |-> None, question_selector |-> "h1", answer_selector |-> ".a",
     explanation_selector |-> ".e", raw_include_text |-> TRUE]

CaptureConfigs ==
    {AllSelectors,
     [AllSelectors EXCEPT !.capture_mode = "bogus"],
     [AllSelectors EXCEPT !.question_selector = None],
     [AllSelectors EXCEPT !.capture_mode = "PARSED", !.answer_selector = ""],
     [AllSelectors EXCEPT !.capture_mode = "RAW", !.question_selector = None],
     [AllSelectors EXCEPT !.capture_mode = "raw", !.raw_include_text = FALSE]}

OutputFormats == {"csv", "JSON", "sqlite", "xml", None}

OutputFilenames == {"out.dat", None}

MakeConfig(u, c, r, l, k, f, n) ==
    [start_urls |-> u, session_cookies |-> c, login_required |-> r,
     login_url |-> l.login_url, login_username_field |-> l.login_username_field,
     login_password_field |-> l.login_password_field,
     username |-> l.username, password |-> l.password,
     capture_mode |-> k.capture_mode, question_selector |-> k.question_selector,
     answer_selector |-> k.answer_selector,
     explanation_selector |-> k.explanation_selector,
     raw_include_text |-> k.raw_include_text,
     output_format |-> f, output_filename |-> n, rate_limit_delay |-> <<>>]

\* The login keys are read by login() alone and the capture and output keys
\* by scrape_page and save_data alone, so the domain is the union of two
\* slices: every login setting with one capture/output setting, and every
\* capture/output setting with one login setting.
StartUrlLists == SeqsUpTo(UrlNames, MaxUrls)

LoginSlice ==
    {MakeConfig(u, c, r, l, AllSelectors, "csv", "out.dat") :
        u \in StartUrlLists, c \in CookieJars, r \in BOOLEAN, l \in LoginConfigs}

ScrapeSlice ==
    {MakeConfig(u, <<>>, FALSE, CompleteLogin, k, f, n) :
        u \in StartUrlLists, k \in CaptureConfigs, f \in OutputFormats,
        n \in OutputFilenames}

\* rate_limit_delay in tenths of a second, as <<d>>; <<>> is an absent key.
\* The key is an integer number of seconds, so the settings are whole
\* seconds: negative, zero and positive.
DelaySettings == {-10, 0, 10, 20}

\* rate_limit_delay is read by scrape_page alone, before anything else
DelaySlice ==
    {[MakeConfig(u, <<>>, FALSE, CompleteLogin, AllSelectors, "csv", "out.dat")
        EXCEPT !.rate_limit_delay = <<d>>] :
        u \in StartUrlLists, d \in DelaySettings}

Configs == LoginSlice \cup ScrapeSlice \cup DelaySlice

\* self.config = {} (scraper.py:42): every key absent
EmptyConfig ==
    MakeConfig(<<>>, <<>>, FALSE,
               [login_url |-> None, login_username_field |-> None,
                login_password_field |-> None, username |-> None, password |-> None],
               [capture_mode |-> None, question_selector |-> None,
                answer_selector |-> None, explanation_selector |-> None,
                raw_include_text |-> TRUE],
               None, None)

\* what a fetched page offers to the extractor: whether each required
\* selector matches, whether table / image extraction yields anything, and
\* whether the extraction raises an unexpected exception
AllMatch == [q |-> TRUE, a |-> TRUE, e |-> TRUE, tables |-> FALSE, images |-> FALSE, boom |-> FALSE]

Pages ==
    {[AllMatch EXCEPT !.tables = t, !.images = i] : t \in BOOLEAN, i \in BOOLEAN}
    \cup {[AllMatch EXCEPT !.q = FALSE], [AllMatch EXCEPT !.a = FALSE],
          [AllMatch EXCEPT !.e = FALSE], [AllMatch EXCEPT !.boom = TRUE]}

\* ------------------------------------------------------- pure helpers
\* bool(value) of a configured string
Truthy(v) == v \notin {None, ""}

\* str.lower() on the strings of the configuration domain
Lower(s) ==
    CASE s = "JSON" -> "json"
      [] s = "RAW" -> "raw"
      [] s = "PARSED" -> "parsed"
      [] OTHER -> s

\* the exception classes and their base classes
IsA(exc, cls) ==
    \/ exc = cls
    \/ cls = "Exception" /\ exc # "none"
    \/ cls = "ScraperError" /\ exc \in {"ConfigError", "LoginError", "ScrapeError"}

\* _require_config_value raises ConfigError
RequireMissing(cfg, key) == cfg[key] \in {None, ""}

\* any(bool(value) for value in cookies.values())
AnyCookieTruthy(cfg) ==
    \E i \in DOMAIN cfg.session_cookies : Truthy(cfg.session_cookies[i])

\* all([login_url, username_field, password_field, username, password])
LoginComplete_noPassword(cfg) ==
    /\ Truthy(cfg.login_url)
    /\ Truthy(cfg.login_username_field)
    /\ Truthy(cfg.login_password_field)
    /\ Truthy(cfg.username)

LoginComplete(cfg) ==
    /\ Truthy(cfg.login_url)
    /\ Truthy(cfg.login_username_field)
    /\ Truthy(cfg.login_password_field)
    /\ Truthy(cfg.username)
    /\ Truthy(cfg.password)

\* which branch login() takes
LoginDecision_requiredFirst(cfg) ==
    IF ~cfg.login_required THEN "skip_not_required"
    ELSE IF AnyCookieTruthy(cfg) THEN "skip_cookies"
    ELSE IF ~LoginComplete(cfg) THEN "incomplete"
    ELSE "post"

LoginDecision(cfg) ==
    IF AnyCookieTruthy(cfg) THEN "skip_cookies"
    ELSE IF ~cfg.login_required THEN "skip_not_required"
    ELSE IF ~LoginComplete(cfg) THEN "incomplete"
    ELSE "post"

\* login(): the exception it raises, the messages it reports and the number
\* of POST requests it issues, given whether the POST succeeds
Login(cfg, postOk) ==
    LET d == LoginDecision(cfg) IN
    CASE d = "skip_cookies" ->
            [exc |-> "none", posts |-> 0,
             msgs |-> <<"Session cookies provided; skipping form-based login.">>]
      [] d = "skip_not_required" ->
            [exc |-> "none", posts |-> 0,
             msgs |-> <<"Login not required; skipping authentication.">>]
      [] d = "incomplete" ->
            [exc |-> "LoginError", posts |-> 0, msgs |-> <<>>]
      [] OTHER ->
            IF postOk
            THEN [exc |-> "none", posts |-> 1,
                  msgs |-> <<"Submitting login form...", "Login completed">>]
            ELSE [exc |-> "LoginError", posts |-> 1,
                  msgs |-> <<"Submitting login form...">>]

\* _get_capture_mode: the mode and what it reports
GetCaptureMode(cfg) ==
    LET mode == Lower(IF cfg.capture_mode = None THEN "parsed" ELSE cfg.capture_mode) IN
    IF mode \notin {"parsed", "raw"}
    THEN [mode |-> "parsed", msgs |-> <<"Unknown capture_mode">>]
    ELSE [mode |-> mode, msgs |-> <<>>]

ParsedKeys == <<"url", "question", "answers", "explanation">>

\* _capture_parsed: the exception raised, or the keys of the data dict
CaptureParsed(cfg, page) ==
    IF \/ RequireMissing(cfg, "question_selector")
       \/ RequireMissing(cfg, "answer_selector")
       \/ RequireMissing(cfg, "explanation_selector")
    THEN [exc |-> "ConfigError", keys |-> <<>>]
    ELSE IF ~page.q \/ ~page.a \/ ~page.e
    THEN [exc |-> "ScrapeError", keys |-> <<>>]
    ELSE [exc |-> "none", keys |-> ParsedKeys]

\* _capture_raw
CaptureRaw(cfg, page) ==
    [exc |-> "none",
     keys |-> <<"url", "status_code", "retrieved_at", "raw_html">>
              \o (IF cfg.raw_include_text THEN <<"raw_text">> ELSE <<>>)]

\* scrape_page after the delay: the data dict (or none), the messages
\* reported, the exception class caught inside (outcome) and the number of
\* GET requests issued
ScrapePage_keepOnNetworkError(cfg, url, fetchOk, page) ==
    LET cm == GetCaptureMode(cfg)
        cap == IF cm.mode = "raw" THEN CaptureRaw(cfg, page) ELSE CaptureParsed(cfg, page)
    IN  [ok |-> TRUE, outcome |-> IF fetchOk THEN "ok" ELSE "network", gets |-> 1,
         data |-> [url |-> url, keys |-> cap.keys],
         msgs |-> <<"Fetching", "Successfully scraped">>]

ScrapePage(cfg, url, fetchOk, page) ==
    IF ~fetchOk
    THEN [ok |-> FALSE, outcome |-> "network", gets |-> 1,
          data |-> [url |-> url, keys |-> <<>>],
          msgs |-> <<"Fetching", "Network error">>]
    ELSE
    LET cm == GetCaptureMode(cfg)
        cap == IF cm.mode = "raw" THEN CaptureRaw(cfg, page) ELSE CaptureParsed(cfg, page)
        exc == IF cap.exc # "none" THEN cap.exc
               ELSE IF page.boom THEN "Exception" ELSE "none"
        keys == cap.keys \o (IF page.tables THEN <<"tables">> ELSE <<>>)
                         \o (IF page.images THEN <<"images">> ELSE <<>>)
    IN  IF exc = "none"
        THEN [ok |-> TRUE, outcome |-> "ok", gets |-> 1,
              data |-> [url |-> url, keys |-> keys],
              msgs |-> <<"Fetching">> \o cm.msgs \o <<"Successfully scraped">>]
        ELSE [ok |-> FALSE, outcome |-> exc, gets |-> 1,
              data |-> [url |-> url, keys |-> <<>>],
              msgs |-> <<"Fetching">> \o cm.msgs \o
                       <<IF IsA(exc, "ScrapeError") THEN "Parsing error"
                         ELSE "Unexpected parsing error">>]

\* int(x) on a number given in tenths: truncation toward zero, in units
IntTrunc(tenths) == IF tenths >= 0 THEN tenths \div 10 ELSE -((-tenths) \div 10)

\* delay = max(int(self.config.get("rate_limit_delay", 1)), 0), in seconds
RateLimitDelay_default0(cfg) ==
    LET d == IF cfg.rate_limit_delay = <<>> THEN 0 ELSE cfg.rate_limit_delay[1]
        n == IntTrunc(d)
    IN  IF n > 0 THEN n ELSE 0

RateLimitDelay(cfg) ==
    LET d == IF cfg.rate_limit_delay = <<>> THEN 10 ELSE cfg.rate_limit_delay[1]
        n == IntTrunc(d)
    IN  IF n > 0 THEN n ELSE 0

\* the blocking calls of scrape_page on the URL at position pos:
\* "if delay: time.sleep(delay)", then session.get
BlockingCalls(cfg, pos) ==
    (IF RateLimitDelay(cfg) # 0
     THEN <<[op |-> "sleep", pos |-> pos, tenths |-> 10 * RateLimitDelay(cfg)]>>
     ELSE <<>>)
    \o <<[op |-> "get", pos |-> pos, tenths |-> 0]>>

\* results.append(page_data)
AppendResult_front(results, data) == <<data>> \o results

AppendResult(results, data) == Append(results, data)

\* ------------------------------------------------------- persistence
Contains(seq, x) == \E i \in DOMAIN seq : seq[i] = x

\* the inner loop of _collect_fieldnames over one row's keys
RECURSIVE AddKeys(_, _)
AddKeys(fieldnames, keys) ==
    IF keys = <<>> THEN fieldnames
    ELSE AddKeys(IF Contains(fieldnames, Head(keys)) THEN fieldnames
                 ELSE Append(fieldnames, Head(keys)),
                 Tail(keys))

\* the outer loop of _collect_fieldnames over the rows
RECURSIVE AllKeys(_, _)
AllKeys(fieldnames, data) ==
    IF data = <<>> THEN fieldnames
    ELSE AllKeys(AddKeys(fieldnames, Head(data).keys), Tail(data))

CollectFieldnames_requiredFirst(data) ==
    AllKeys(<<"tables", "images">>, data)

\* _collect_fieldnames
CollectFieldnames(data) ==
    AddKeys(AllKeys(<<>>, data), <<"tables", "images">>)

NoFile == [exists |-> FALSE, format |-> "", header |-> <<>>, rows |-> <<>>]

\* the fields one persisted row carries, format by format: csv and sqlite
\* write one value per field of the schema (row.get(field), so "" or NULL
\* for a missing one), json dumps the dict as it is
PersistedRow_ownKeys(format, fieldnames, row) == row.keys

PersistedRow(format, fieldnames, row) ==
    IF format = "json" THEN row.keys ELSE fieldnames

\* _save_to_csv, _save_to_json, _save_to_sqlite on a fresh output path
WriteFile(format, data) ==
    LET fieldnames == IF format = "json" THEN <<>> ELSE CollectFieldnames(data) IN
    [exists |-> TRUE, format |-> format, header |-> fieldnames,
     rows |-> [i \in DOMAIN data |-> PersistedRow(format, fieldnames, data[i])]]

\* (self.config.get("output_format") or "").lower()
OutputFormat(cfg) ==
    Lower(IF Truthy(cfg.output_format) THEN cfg.output_format ELSE "")

SaveData_formatFirst(cfg, data) ==
    IF data = <<>>
    THEN [exc |-> "ScraperError", msg |-> "No data was scraped; nothing to save.",
          file |-> NoFile]
    ELSE IF OutputFormat(cfg) \notin {"csv", "json", "sqlite"}
    THEN [exc |-> "ScraperError", msg |-> "Unsupported output format", file |-> NoFile]
    ELSE IF RequireMissing(cfg, "output_filename")
    THEN [exc |-> "ConfigError", msg |-> "Missing required configuration value",
          file |-> NoFile]
    ELSE [exc |-> "none", msg |-> "Data saved", file |-> WriteFile(OutputFormat(cfg), data)]

\* save_data: the exception it raises with its message (or the message it
\* reports) and the file it writes
SaveData(cfg, data) ==
    IF data = <<>>
    THEN [exc |-> "ScraperError", msg |-> "No data was scraped; nothing to save.",
          file |-> NoFile]
    ELSE IF RequireMissing(cfg, "output_filename")
    THEN [exc |-> "ConfigError", msg |-> "Missing required configuration value",
          file |-> NoFile]
    ELSE IF OutputFormat(cfg) \notin {"csv", "json", "sqlite"}
    THEN [exc |-> "ScraperError", msg |-> "Unsupported output format", file |-> NoFile]
    ELSE [exc |-> "none", msg |-> "Data saved", file |-> WriteFile(OutputFormat(cfg), data)]

\* the end of run(), after the loop: whether save_data is called
SavesResults_always(results) == TRUE

SavesResults(results) == results # <<>>

\* ------------------------------------------------------------ engine state
VARIABLES
    configFile,   \* the configuration file: [state, content]
    config,       \* self.config
    pc,           \* where the caller of Scraper(...).run() stands
    idx,          \* position of the loop of run() in start_urls
    results,      \* the list run() accumulates
    status,       \* the messages handed to the status callback, in order
    gets,         \* number of page GET requests issued
    posts,        \* number of login POST requests issued
    postFailed,   \* whether a login POST failed
    error,        \* class of the exception that ended the run, or "none"
    raisedBy,     \* the call that raised it
    returned,     \* [done, value]: the value run() returned
    attempts,     \* history of scrape_page calls: [pos, url, outcome, appended]
    saveCalls,    \* the arguments of the save_data calls, in order
    outFile,      \* the output file
    timeline      \* the blocking calls of the run, in order: [op, pos, tenths]

engineVars ==
    <<configFile, config, pc, idx, results, status, gets, posts, postFailed,
      error, raisedBy, returned, attempts, saveCalls, outFile, timeline>>

\* ------------------------------------------------------ front-end state
VARIABLES
    start_button,  \* whether the Start button is enabled
    url_input,     \* the text of the URL field, as its comma-separated pieces
    workers,       \* the worker threads: where each stands
    eventQueue,    \* signals emitted by workers, queued for the GUI thread
    log_output,    \* the lines of the log view
    completions    \* how many times each worker emitted scraping_complete

guiVars == <<start_button, url_input, workers, eventQueue, log_output, completions>>

\* ------------------------------------------------- image extraction state
VARIABLES
    imgSelectors,  \* config.get("image_selectors")
    imgElements,   \* the elements of the page in document order: their src
    images,        \* the list _extract_images returned
    imgPc          \* "off", "call" or "returned"

imgVars == <<imgSelectors, imgElements, images, imgPc>>

vars == <<engineVars, guiVars, imgVars>>

Threads == 1..MaxThreads

\* -------------------------------------------------------- image extraction
\* the URL of the page the elements are on
BaseUrl == "http://x/p/q"

\* image_tag.get("src"): None is a tag without the attribute; two relative
\* spellings of one file, and an absolute URL on another host
Srcs == {None, "", "a.png", "/p/a.png", "http://y/b.png"}

\* urljoin(base_url, src) on the sources of the domain
UrlJoin(base, src) ==
    CASE src = "a.png" /\ base = BaseUrl -> "http://x/p/a.png"
      [] src = "/p/a.png" /\ base = BaseUrl -> "http://x/p/a.png"
      [] OTHER -> src

\* entries of a selector list: None is an entry that is not a string
SelectorEntries == {None, "", "img", "#one"}

\* soup.select(selector): the matched elements in document order, as
\* positions; "img" matches every element, "#one" the first
Select(selector, elements) ==
    CASE selector = "img" -> [k \in 1..Len(elements) |-> k]
      [] selector = "#one" -> IF elements = <<>> THEN <<>> ELSE <<1>>
      [] OTHER -> <<>>

\* values of the image_selectors key: null or absent, a string, a list, or
\* anything else (a number, a mapping)
ImageSelectorValues ==
    {[type |-> "null", items |-> <<>>], [type |-> "other", items |-> <<>>]}
    \cup {[type |-> "str", items |-> <<x>>] : x \in SelectorEntries \ {None}}
    \cup {[type |-> "list", items |-> l] : l \in SeqsUpTo(SelectorEntries, MaxSelectors)}

\* selectors = self.config.get("image_selectors") or []; a string is wrapped
\* in a list; anything but a list makes _extract_images return []
NormalizeSelectors(value) ==
    IF \/ value.type = "null"
       \/ value.type = "str" /\ value.items[1] = ""
       \/ value.type = "list" /\ value.items = <<>>
    THEN [isList |-> TRUE, items |-> <<>>]
    ELSE IF value.type \in {"str", "list"}
    THEN [isList |-> TRUE, items |-> value.items]
    ELSE [isList |-> FALSE, items |-> <<>>]

\* if absolute_url not in images: images.append(absolute_url)
AddImage_always(imgs, url) == Append(imgs, url)

AddImage(imgs, url) == IF \E i \in DOMAIN imgs : imgs[i] = url THEN imgs ELSE Append(imgs, url)

\* the inner loop of _extract_images over the elements one selector matched
RECURSIVE ScanMatches(_, _, _, _)
ScanMatches(imgs, matches, elements, base) ==
    IF matches = <<>> THEN imgs
    ELSE LET src == elements[Head(matches)] IN
         ScanMatches(IF src \in {None, ""} THEN imgs
                     ELSE AddImage(imgs, UrlJoin(base, src)),
                     Tail(matches), elements, base)

\* the outer loop of _extract_images over the selectors
RECURSIVE ScanSelectors(_, _, _, _)
ScanSelectors(imgs, selectors, elements, base) ==
    IF selectors = <<>> THEN imgs
    ELSE LET selector == Head(selectors) IN
         ScanSelectors(IF selector \in {None, ""} THEN imgs
                       ELSE ScanMatches(imgs, Select(selector, elements), elements, base),
                       Tail(selectors), elements, base)

\* _extract_images(soup, base_url)
ExtractImages(value, elements, base) ==
    LET selectors == NormalizeSelectors(value) IN
    IF ~selectors.isList THEN <<>>
    ELSE ScanSelectors(<<>>, selectors.items, elements, base)

\* image extraction is not under study: nothing is extracted
ImagesOff ==
    /\ imgSelectors = [type |-> "null", items |-> <<>>]
    /\ imgElements = <<>>
    /\ images = <<>>
    /\ imgPc = "off"

\* no front end: the engine is driven by a direct caller
GuiAbsent ==
    /\ start_button = TRUE
    /\ url_input = <<"">>
    /\ workers = [t \in Threads |-> "unstarted"]
    /\ eventQueue = <<>>
    /\ log_output = <<>>
    /\ completions = [t \in Threads |-> 0]

NotReturned == [done |-> FALSE, value |-> <<>>]

\* everything of the engine but the configuration file and pc
EngineFresh ==
    /\ config = EmptyConfig
    /\ idx = 1
    /\ results = <<>>
    /\ status = <<>>
    /\ gets = 0
    /\ posts = 0
    /\ postFailed = FALSE
    /\ error = "none"
    /\ raisedBy = "none"
    /\ returned = NotReturned
    /\ attempts = <<>>
    /\ saveCalls = <<>>
    /\ outFile = NoFile
    /\ timeline = <<>>

\* a caller about to construct a Scraper on some configuration file
EngineInit ==
    /\ configFile \in [state : {"ok"}, content : Configs]
                      \cup [state : {"missing", "invalid"}, content : {EmptyConfig}]
    /\ pc = "init"
    /\ EngineFresh

\* Scraper.__init__: _load_config and _apply_session_overrides
Construct ==
    /\ pc = "init"
    /\ IF configFile.state # "ok"
       THEN /\ status' = Append(status, "Loading configuration")
            /\ error' = "ConfigError"
            /\ raisedBy' = "__init__"
            /\ pc' = "ran"
            /\ UNCHANGED config
       ELSE /\ config' = configFile.content
            /\ status' = status \o <<"Loading configuration">> \o
                  (IF configFile.content.session_cookies # <<>>
                   THEN <<"Applied session cookies">> ELSE <<>>)
            /\ pc' = "login"
            /\ UNCHANGED <<error, raisedBy>>
    /\ UNCHANGED <<configFile, idx, results, gets, posts, postFailed, returned,
                   attempts, saveCalls, outFile, timeline,
                   guiVars, imgVars>>

\* run() up to the loop: the first status message and login()
RunLogin ==
    /\ pc = "login"
    /\ \E postOk \in BOOLEAN :
         LET r == Login(config, postOk) IN
         /\ status' = status \o <<"Starting scraping workflow...">> \o r.msgs
         /\ posts' = posts + r.posts
         /\ postFailed' = (r.posts > 0 /\ ~postOk)
         /\ timeline' = timeline \o
               [k \in 1..r.posts |-> [op |-> "post", pos |-> 0, tenths |-> 0]]
         /\ IF r.exc = "none"
            THEN /\ pc' = "loop"
                 /\ UNCHANGED <<error, raisedBy>>
            ELSE /\ pc' = "ran"
                 /\ error' = r.exc
                 /\ raisedBy' = "login"
    /\ UNCHANGED <<configFile, config, idx, results, gets, returned, attempts,
                   saveCalls, outFile,
                   guiVars, imgVars>>

\* one iteration of the loop of run() on a null or empty URL
SkipUrl ==
    /\ pc = "loop"
    /\ idx <= Len(config.start_urls)
    /\ ~Truthy(config.start_urls[idx])
    /\ idx' = idx + 1
    /\ UNCHANGED <<configFile, config, pc, results, status, gets, posts, postFailed,
                   error, raisedBy, returned, attempts, saveCalls, outFile, timeline,
                   guiVars, imgVars>>

\* one iteration of the loop of run() on a URL: scrape_page and the append
ScrapeUrl ==
    /\ pc = "loop"
    /\ idx <= Len(config.start_urls)
    /\ Truthy(config.start_urls[idx])
    /\ \E fetchOk \in BOOLEAN, page \in Pages :
         LET url == config.start_urls[idx]
             r == ScrapePage(config, url, fetchOk, page)
         IN  /\ gets' = gets + r.gets
             /\ status' = status \o r.msgs
             /\ results' = IF r.ok THEN AppendResult(results, r.data) ELSE results
             /\ attempts' = Append(attempts,
                                   [pos |-> idx, url |-> url, outcome |-> r.outcome,
                                    appended |-> r.ok])
             /\ timeline' = timeline \o BlockingCalls(config, idx)
    /\ idx' = idx + 1
    /\ UNCHANGED <<configFile, config, pc, posts, postFailed, error, raisedBy,
                   returned, saveCalls, outFile,
                   guiVars, imgVars>>

\* the end of run(): the empty-result return, or save_data and the return
RunFinish ==
    /\ pc = "loop"
    /\ idx > Len(config.start_urls)
    /\ pc' = "ran"
    /\ IF ~SavesResults(results)
       THEN /\ status' = Append(status, "No successful scrapes were recorded.")
            /\ returned' = [done |-> TRUE, value |-> <<>>]
            /\ UNCHANGED <<error, raisedBy, saveCalls, outFile>>
       ELSE LET r == SaveData(config, results) IN
            /\ saveCalls' = Append(saveCalls, results)
            /\ outFile' = r.file
            /\ IF r.exc = "none"
               THEN /\ status' = status \o <<r.msg, "Scraping workflow completed.">>
                    /\ returned' = [done |-> TRUE, value |-> results]
                    /\ UNCHANGED <<error, raisedBy>>
               ELSE /\ status' = Append(status, r.msg)
                    /\ error' = r.exc
                    /\ raisedBy' = "save_data"
                    /\ UNCHANGED returned
    /\ UNCHANGED <<configFile, config, idx, results, gets, posts, postFailed, attempts,
                   timeline, guiVars, imgVars>>

Next == Construct \/ RunLogin \/ SkipUrl \/ ScrapeUrl \/ RunFinish

Init == EngineInit /\ GuiAbsent /\ ImagesOff

Spec == Init /\ [][Next]_vars

\* ------------------------------------------- image extraction on its own
\* a page and an image_selectors value, and _extract_images about to run
ImagesInit ==
    /\ configFile = [state |-> "ok", content |-> EmptyConfig]
    /\ pc = "images"
    /\ EngineFresh
    /\ GuiAbsent
    /\ imgSelectors \in ImageSelectorValues
    /\ imgElements \in SeqsUpTo(Srcs, MaxElems)
    /\ images = <<>>
    /\ imgPc = "call"

\* the call of _extract_images
ExtractImagesCall ==
    /\ imgPc = "call"
    /\ images' = ExtractImages(imgSelectors, imgElements, BaseUrl)
    /\ imgPc' = "returned"
    /\ UNCHANGED <<engineVars, guiVars, imgSelectors, imgElements>>

NextImages == ExtractImagesCall

SpecImages == ImagesInit /\ [][NextImages]_vars

\* ------------------------------------------------------------- front end
\* str.strip() on the pieces of the URL field
Strip(piece) ==
    CASE piece = " " -> ""
      [] piece = " a" -> "a"
      [] piece = "b " -> "b"
      [] OTHER -> piece

UrlPieces == {" ", " a", "b "}

\* text.split(",") always yields at least one piece
UrlTexts == SeqsUpTo(UrlPieces, MaxUrls) \ {<<>>}

\* [url.strip() for url in raw_urls if url.strip()]
ParseUrls(pieces) ==
    LET stripped == [i \in DOMAIN pieces |-> Strip(pieces[i])]
    IN  SelectSeq(stripped, LAMBDA u : u # "")

\* ", ".join(start_urls), as the pieces split(",") gives back
JoinUrls(urls) == IF urls = <<>> THEN <<"">> ELSE urls

GuiConfig(urls) == MakeConfig(urls, <<>>, FALSE, CompleteLogin, AllSelectors, "csv", "out.dat")

\* how run_scraper_thread's try block can end
RunOutcomes == {"results", "empty", "ConfigError", "LoginError", "ScraperError", "Exception"}

\* the line run_scraper_thread logs for each
OutcomeLog(outcome) ==
    CASE outcome = "results" -> "Scraping complete"
      [] outcome = "empty" -> "Scraper finished without collecting any data."
      [] outcome = "Exception" -> "Unexpected error"
      [] OTHER -> "Scraper error"

\* setEnabled on the Start button by the time start_scraping returns
StartButtonAfterStart_enabled(started) == TRUE

StartButtonAfterStart(started) == ~started

\* the engine is not driven directly: each worker owns its own Scraper
EngineIdle ==
    /\ pc = "gui"
    /\ EngineFresh

\* ScraperGUI.__init__: _load_config_into_ui fills the URL field
GuiInit ==
    /\ configFile \in [state : {"ok"}, content : {GuiConfig(u) : u \in StartUrlLists}]
                      \cup [state : {"missing", "invalid"}, content : {EmptyConfig}]
    /\ EngineIdle
    /\ start_button = TRUE
    /\ url_input = IF configFile.state = "ok"
                   THEN JoinUrls(configFile.content.start_urls) ELSE <<"">>
    /\ workers = [t \in Threads |-> "unstarted"]
    /\ eventQueue = <<>>
    /\ log_output = IF configFile.state = "ok" THEN <<>>
                    ELSE <<"Configuration file not found or invalid">>
    /\ completions = [t \in Threads |-> 0]
    /\ ImagesOff

\* the user edits the URL field: replaces the text by one piece, types one
\* more piece after a comma, or deletes the last piece
EditUrlInput ==
    /\ \E text \in UrlTexts :
         /\ \/ Len(text) = 1
            \/ Len(text) = Len(url_input) + 1 /\ SubSeq(text, 1, Len(url_input)) = url_input
            \/ Len(text) = Len(url_input) - 1 /\ SubSeq(url_input, 1, Len(text)) = text
         /\ url_input' = text
    /\ url_input' # url_input
    /\ UNCHANGED <<engineVars, start_button, workers, eventQueue, log_output,
                   completions, imgVars>>

\* the configuration file changes under the application (external editor)
ConfigFileChanges ==
    /\ \E st \in {"ok", "missing", "invalid", "readonly"} :
         /\ st # configFile.state
         /\ configFile' = [state |-> st,
                           content |-> IF st \in {"ok", "readonly"}
                                       THEN GuiConfig(configFile.content.start_urls)
                                       ELSE EmptyConfig]
    /\ UNCHANGED <<config, pc, idx, results, status, gets, posts, postFailed, error,
                   raisedBy, returned, attempts, saveCalls, outFile, timeline,
                   guiVars, imgVars>>

\* a click on the enabled Start button: start_scraping, whole; every worker
\* is a new Thread object, so the model allows MaxThreads of them in all
StartScraping ==
    /\ start_button
    /\ LET urls == ParseUrls(url_input)
           persistExc == CASE configFile.state \in {"missing", "invalid"} -> "ConfigError"
                           [] configFile.state = "readonly" -> "Exception"
                           [] OTHER -> "none"
           started == persistExc = "none" /\ urls # <<>>
       IN  /\ configFile' = IF persistExc = "none"
                            THEN [configFile EXCEPT !.content.start_urls = urls]
                            ELSE configFile
           /\ log_output' =
                CASE persistExc = "ConfigError" -> <<"Configuration file not found or invalid">>
                  [] persistExc = "Exception" -> <<"Failed to update configuration">>
                  [] urls = <<>> -> <<"No URLs provided.">>
                  [] OTHER -> <<"Starting scraper in a background thread...">>
           /\ start_button' = StartButtonAfterStart(started)
           /\ IF started
              THEN \E t \in Threads :
                     /\ workers[t] = "unstarted"
                     /\ \A u \in 1..(t - 1) : workers[u] # "unstarted"
                     /\ workers' = [workers EXCEPT ![t] = "running"]
              ELSE UNCHANGED workers
    /\ UNCHANGED <<config, pc, idx, results, status, gets, posts, postFailed, error,
                   raisedBy, returned, attempts, saveCalls, outFile, timeline,
                   url_input, eventQueue, completions, imgVars>>

\* run_scraper_thread's try block: Scraper(...), run(), the summary, and the
\* except clauses that log the error
WorkerRun(t) ==
    /\ workers[t] = "running"
    /\ \E outcome \in RunOutcomes :
         /\ configFile.state \in {"missing", "invalid"} => outcome = "ConfigError"
         /\ eventQueue' = Append(eventQueue, [signal |-> "log_signal",
                                              text |-> OutcomeLog(outcome)])
    /\ workers' = [workers EXCEPT ![t] = "finally"]
    /\ UNCHANGED <<engineVars, start_button, url_input, log_output, completions,
                   imgVars>>

\* the signals run_scraper_thread's finally clause emits
FinallySignals_none(t) == <<>>

FinallySignals(t) == <<[signal |-> "scraping_complete", text |-> ""]>>

\* run_scraper_thread's finally clause
WorkerFinally(t) ==
    /\ workers[t] = "finally"
    /\ eventQueue' = eventQueue \o FinallySignals(t)
    /\ completions' = [completions EXCEPT ![t] = @ + Len(FinallySignals(t))]
    /\ workers' = [workers EXCEPT ![t] = "finished"]
    /\ UNCHANGED <<engineVars, start_button, url_input, log_output, imgVars>>

\* the GUI thread delivers a queued log_signal: _append_log
AppendLog ==
    /\ eventQueue # <<>>
    /\ Head(eventQueue).signal = "log_signal"
    /\ log_output' = Append(log_output, Head(eventQueue).text)
    /\ eventQueue' = Tail(eventQueue)
    /\ UNCHANGED <<engineVars, start_button, url_input, workers, completions,
                   imgVars>>

\* the GUI thread delivers a queued scraping_complete: _on_scraping_complete
OnScrapingComplete ==
    /\ eventQueue # <<>>
    /\ Head(eventQueue).signal = "scraping_complete"
    /\ start_button' = TRUE
    /\ eventQueue' = Tail(eventQueue)
    /\ UNCHANGED <<engineVars, url_input, workers, log_output, completions,
                   imgVars>>

NextGui ==
    \/ EditUrlInput
    \/ ConfigFileChanges
    \/ StartScraping
    \/ \E t \in Threads : WorkerRun(t)
    \/ \E t \in Threads : WorkerFinally(t)
    \/ AppendLog
    \/ OnScrapingComplete

SpecGui == GuiInit /\ [][NextGui]_vars

\* ------------------------------------------- one worker and its scraper
\* A worker has just been started by start_scraping; its Scraper reports
\* through status_callback = self.log_signal.emit, so status is the sequence
\* of log_signal emissions of the worker.
ThreadInit ==
    /\ EngineInit
    /\ start_button = FALSE
    /\ url_input = <<"">>
    /\ workers = [t \in Threads |-> IF t = 1 THEN "running" ELSE "unstarted"]
    /\ eventQueue = <<>>
    /\ log_output = <<"Starting scraper in a background thread...">>
    /\ completions = [t \in Threads |-> 0]
    /\ ImagesOff

\* how the try block of run_scraper_thread ends once Scraper(...).run() has
\* returned or raised; _summarize_output may itself raise
ThreadOutcomes ==
    IF error # "none" THEN {error}
    ELSE IF returned.value # <<>> THEN {"results", "Exception"}
    ELSE {"empty"}

\* run_scraper_thread after run(): the summary line or the except clauses
ThreadEnd ==
    /\ pc = "ran"
    /\ workers[1] = "running"
    /\ \E outcome \in ThreadOutcomes : status' = Append(status, OutcomeLog(outcome))
    /\ pc' = "done"
    /\ workers' = [workers EXCEPT ![1] = "finally"]
    /\ UNCHANGED <<configFile, config, idx, results, gets, posts, postFailed, error,
                   raisedBy, returned, attempts, saveCalls, outFile, timeline,
                   start_button, url_input, eventQueue, log_output, completions,
                   imgVars>>

NextThread ==
    \/ Construct
    \/ RunLogin
    \/ SkipUrl
    \/ ScrapeUrl
    \/ RunFinish
    \/ ThreadEnd
    \/ WorkerFinally(1)
    \/ OnScrapingComplete

SpecThread == ThreadInit /\ [][NextThread]_vars

\* A started thread is scheduled until its target returns: run() is a finite
\* loop of calls with timeouts, and the finally clause follows.  The Qt event
\* loop of the GUI thread delivers every queued signal.  Clicks and edits
\* are the user's and carry no fairness.
GuiFairness ==
    /\ WF_vars(\E t \in Threads : WorkerRun(t))
    /\ WF_vars(\E t \in Threads : WorkerFinally(t))
    /\ WF_vars(AppendLog)
    /\ WF_vars(OnScrapingComplete)

SpecGuiFair == SpecGui /\ GuiFairness

\* ---------------------------------------------------------------- claims
Range(seq) == {seq[i] : i \in DOMAIN seq}

NonEmptyPositions(urls) == {i \in DOMAIN urls : urls[i] \notin {"", None}}

AttemptedPositions == {attempts[k].pos : k \in DOMAIN attempts}

\* run() got past login() and has left its loop
LoopDone == pc = "ran" /\ raisedBy \notin {"__init__", "login"}

SomeCookieTruthy == \E i \in DOMAIN config.session_cookies : config.session_cookies[i] # ""

SomeLoginFieldMissing ==
    \E f \in {"login_url", "login_username_field", "login_password_field",
              "username", "password"} : config[f] \in {None, ""}

ParsedModeConfigured ==
    config.capture_mode \notin {"raw", "RAW"}

SomeSelectorMissing ==
    \E f \in {"question_selector", "answer_selector", "explanation_selector"} :
        config[f] \in {None, ""}

FormatSupported ==
    config.output_format \in {"csv", "CSV", "json", "JSON", "sqlite", "SQLITE"}

\* C1: a URL whose processing fails at page level (network failure, a
\* required selector without a match, any exception during extraction)
\* contributes no Record, and every later non-empty URL is still attempted:
\* the loop of run() reaches every non-empty URL whatever failed before, and
\* no exception of a page ends the run.
PageFailureIsolated ==
    /\ \A k \in DOMAIN attempts :
         attempts[k].outcome # "ok" => ~attempts[k].appended
    /\ Len(results) = Cardinality({k \in DOMAIN attempts : attempts[k].outcome = "ok"})
    /\ pc = "loop" =>
         AttemptedPositions = {i \in NonEmptyPositions(config.start_urls) : i < idx}
    /\ LoopDone => AttemptedPositions = NonEmptyPositions(config.start_urls)
    /\ error # "none" => raisedBy \in {"__init__", "login", "save_data"}

\* a run that went on after a failed page and scraped a later one
PageFailureIsolatedWitness ==
    /\ LoopDone
    /\ Len(attempts) = 2
    /\ attempts[1].outcome # "ok"
    /\ attempts[2].outcome = "ok"
    /\ Len(results) = 1

\* C2: the sequence run() accumulates, returns and hands to save_data has
\* exactly one Record per successfully scraped URL, in the order of those
\* URLs in start_urls; failed and empty URLs are absent.
ResultsInUrlOrder ==
    LET succ == SelectSeq(attempts, LAMBDA a : a.outcome = "ok") IN
    /\ [i \in DOMAIN results |-> results[i].url] = [i \in DOMAIN succ |-> succ[i].url]
    /\ \A k \in DOMAIN attempts :
         /\ attempts[k].url = config.start_urls[attempts[k].pos]
         /\ attempts[k].url # ""
         /\ \A j \in 1..(k - 1) : attempts[j].pos < attempts[k].pos
    /\ returned.done => returned.value = results
    /\ \A i \in DOMAIN saveCalls : saveCalls[i] = results
    /\ (LoopDone /\ results # <<>>) => saveCalls = <<results>>

\* two URLs scraped, returned in the configured order
ResultsInUrlOrderWitness ==
    /\ returned.done
    /\ Len(returned.value) = 2
    /\ returned.value[1].url # returned.value[2].url
    /\ returned.value[1].url = config.start_urls[1]

\* C3: when no Record was accumulated after every URL was attempted, run()
\* reports "no successful scrapes", returns an empty sequence, never calls
\* save_data, writes no file and raises nothing.
EmptyRunReturnsQuietly ==
    (LoopDone /\ results = <<>>) =>
        /\ returned = [done |-> TRUE, value |-> <<>>]
        /\ error = "none"
        /\ Last(status) = "No successful scrapes were recorded."
        /\ saveCalls = <<>>
        /\ outFile = NoFile

\* a run whose every page failed
EmptyRunWitness ==
    /\ LoopDone
    /\ results = <<>>
    /\ Len(attempts) = 2

\* C4: when login() fails (login required, no truthy cookie, and a login
\* setting missing or the POST failing), run() ends with a LoginError before
\* any page GET and before any output.
LoginFailureIsFatal ==
    (/\ pc \in {"loop", "ran"}
     /\ config.login_required
     /\ ~SomeCookieTruthy
     /\ (SomeLoginFieldMissing \/ postFailed)) =>
        /\ pc = "ran"
        /\ error = "LoginError"
        /\ raisedBy = "login"
        /\ gets = 0
        /\ attempts = <<>>
        /\ saveCalls = <<>>
        /\ outFile = NoFile

\* a run with URLs to scrape that ended in login() for a missing password
LoginFailureWitness ==
    /\ pc = "ran"
    /\ error = "LoginError"
    /\ config.password = None
    /\ NonEmptyPositions(config.start_urls) # {}

\* C5: with at least one truthy session cookie, login() reports the skip,
\* issues no POST and raises no LoginError, whatever login_required is and
\* however incomplete the login settings are; login_required is consulted
\* only when no cookie is truthy.
CookiesSkipLogin ==
    /\ (pc \in {"loop", "ran"} /\ SomeCookieTruthy) =>
          /\ posts = 0
          /\ error # "LoginError"
          /\ Contains(status, "Session cookies provided; skipping form-based login.")
          /\ ~Contains(status, "Login not required; skipping authentication.")
    /\ Contains(status, "Session cookies provided; skipping form-based login.")
          => SomeCookieTruthy

\* cookies let a run through although login is required and incomplete
CookiesSkipLoginWitness ==
    /\ pc = "loop"
    /\ SomeCookieTruthy
    /\ config.login_required
    /\ SomeLoginFieldMissing

\* C6 (as claimed): a ConfigError for a missing key other than
\* output_filename is raised before any network request and ends the run; in
\* parsed mode a run that has a URL to scrape and a missing or empty
\* required selector ends with ConfigError without any GET, and no page
\* swallows a ConfigError.
ConfigErrorBeforeNetwork ==
    /\ \A k \in DOMAIN attempts : attempts[k].outcome # "ConfigError"
    /\ (error = "ConfigError" /\ raisedBy # "save_data") => gets = 0 /\ posts = 0
    /\ (/\ LoopDone
        /\ ParsedModeConfigured
        /\ SomeSelectorMissing
        /\ NonEmptyPositions(config.start_urls) # {}) =>
          error = "ConfigError" /\ gets = 0

\* the position at which a field name is first seen when the records' keys
\* are read in order, tables and images coming after the last record
RECURSIVE KeyStream(_)
KeyStream(data) ==
    IF data = <<>> THEN <<"tables", "images">>
    ELSE Head(data).keys \o KeyStream(Tail(data))

FirstSeen(stream, x) ==
    CHOOSE i \in DOMAIN stream :
        stream[i] = x /\ \A j \in 1..(i - 1) : stream[j] # x

UnionOfKeys(data) == UNION {Range(data[i].keys) : i \in DOMAIN data}

\* C7: the field schema of a csv or sqlite output is the union of the keys
\* of all records, each once, in first-seen order, then tables and images
\* when not seen before; both names are always in it.
SchemaIsFirstSeenUnion ==
    (outFile.exists /\ outFile.format \in {"csv", "sqlite"}) =>
        LET data == saveCalls[1]
            h == outFile.header
            stream == KeyStream(data)
        IN  /\ Range(h) = UnionOfKeys(data) \cup {"tables", "images"}
            /\ \A i, j \in DOMAIN h :
                 i < j => FirstSeen(stream, h[i]) < FirstSeen(stream, h[j])

\* a schema where images comes before tables, as the records had them
SchemaWitness ==
    /\ outFile.exists
    /\ outFile.format = "csv"
    /\ Len(saveCalls[1]) = 2
    /\ \E i, j \in DOMAIN outFile.header :
         i < j /\ outFile.header[i] = "images" /\ outFile.header[j] = "tables"

\* C8 (as claimed): in every output format each persisted Record carries the
\* union of the field names of the result set, tables and images included.
EveryFormatNormalized ==
    outFile.exists =>
        \A i \in DOMAIN outFile.rows :
            Range(outFile.rows[i]) = UnionOfKeys(saveCalls[1]) \cup {"tables", "images"}

\* C8 (amended): in csv and sqlite output each persisted Record carries the
\* union of the field names with tables and images; json output persists
\* each Record with its own keys alone.
CsvSqliteNormalized ==
    outFile.exists =>
        /\ Len(outFile.rows) = Len(saveCalls[1])
        /\ \A i \in DOMAIN outFile.rows :
             IF outFile.format = "json"
             THEN outFile.rows[i] = saveCalls[1][i].keys
             ELSE Range(outFile.rows[i]) =
                    UnionOfKeys(saveCalls[1]) \cup {"tables", "images"}

\* a sqlite file whose records populated neither tables nor images
CsvSqliteNormalizedWitness ==
    /\ outFile.exists
    /\ outFile.format = "sqlite"
    /\ Len(outFile.rows) = 2
    /\ \A i \in DOMAIN saveCalls[1] : ~Contains(saveCalls[1][i].keys, "tables")

\* C10 (as claimed): with results and an unsupported output_format save_data
\* fails with ScraperError "unsupported output format", writes no file, and
\* the failure comes after every URL was attempted.
UnsupportedFormatFails ==
    (LoopDone /\ results # <<>> /\ ~FormatSupported) =>
        /\ IsA(error, "ScraperError")
        /\ Last(status) = "Unsupported output format"
        /\ outFile = NoFile
        /\ AttemptedPositions = NonEmptyPositions(config.start_urls)

\* C10 (amended): with results and an unsupported output_format save_data
\* writes no file and fails after every URL was attempted: with ScraperError
\* "unsupported output format" when output_filename is set, with ConfigError
\* for the missing output_filename when it is not.
UnsupportedFormatFailsAfterFilename ==
    (LoopDone /\ results # <<>> /\ ~FormatSupported) =>
        /\ raisedBy = "save_data"
        /\ outFile = NoFile
        /\ AttemptedPositions = NonEmptyPositions(config.start_urls)
        /\ IF config.output_filename \in {None, ""}
           THEN /\ error = "ConfigError"
                /\ Last(status) = "Missing required configuration value"
           ELSE /\ error = "ScraperError"
                /\ Last(status) = "Unsupported output format"

\* an absent output_format refused after two URLs were attempted
UnsupportedFormatWitness ==
    /\ LoopDone
    /\ error = "ScraperError"
    /\ config.output_format = None
    /\ Len(attempts) = 2
    /\ results # <<>>

\* C9: at most one worker is inside its scraping run (the Scraper
\* construction and run()) at any time, whatever the clicks and the
\* interleaving of the GUI thread and the workers.
OneRunAtATime ==
    Cardinality({t \in Threads : workers[t] = "running"}) <= 1

\* a second worker running after the first one finished
OneRunAtATimeWitness ==
    \E t, u \in Threads : workers[t] = "running" /\ workers[u] = "finished"

\* C12: the images list holds each resolved absolute URL of a matched
\* element with a source exactly once, ordered by first occurrence when the
\* selectors are scanned in configured order and their matches in document
\* order.
ImageOccurrences ==
    LET sels == IF imgSelectors.type \in {"str", "list"} THEN imgSelectors.items ELSE <<>>
    IN  {o \in (DOMAIN sels) \X (DOMAIN imgElements) :
           /\ sels[o[1]] \notin {None, ""}
           /\ \E k \in DOMAIN Select(sels[o[1]], imgElements) :
                 Select(sels[o[1]], imgElements)[k] = o[2]
           /\ imgElements[o[2]] \notin {None, ""}}

OccurrenceUrl(o) == UrlJoin(BaseUrl, imgElements[o[2]])

ScannedBefore(o1, o2) == o1[1] < o2[1] \/ (o1[1] = o2[1] /\ o1[2] < o2[2])

FirstOccurrence(url) ==
    CHOOSE o \in ImageOccurrences :
        /\ OccurrenceUrl(o) = url
        /\ \A o2 \in ImageOccurrences :
              OccurrenceUrl(o2) = url /\ o2 # o => ScannedBefore(o, o2)

ImagesDedupFirstOccurrence ==
    imgPc = "returned" =>
        /\ {images[i] : i \in DOMAIN images} = {OccurrenceUrl(o) : o \in ImageOccurrences}
        /\ \A i, j \in DOMAIN images : i # j => images[i] # images[j]
        /\ \A i, j \in DOMAIN images :
              i < j => ScannedBefore(FirstOccurrence(images[i]), FirstOccurrence(images[j]))

\* two selectors match the first element, and both elements resolve to the
\* same absolute URL: one entry
ImagesDedupWitness ==
    /\ imgPc = "returned"
    /\ imgSelectors = [type |-> "list", items |-> <<"img", "#one">>]
    /\ imgElements = <<"a.png", "/p/a.png">>
    /\ images = <<"http://x/p/a.png">>

\* C13: every page GET is immediately preceded by a blocking wait of exactly
\* max(rate_limit_delay, 0) seconds (1 second when the key is absent), no
\* wait at all when that is zero, once per attempted URL whether or not the
\* fetch succeeds.
ConfiguredWait ==
    IF config.rate_limit_delay = <<>> THEN 10
    ELSE IF config.rate_limit_delay[1] > 0 THEN config.rate_limit_delay[1] ELSE 0

GetEvents == {k \in DOMAIN timeline : timeline[k].op = "get"}

SleepEvents == {k \in DOMAIN timeline : timeline[k].op = "sleep"}

WaitBeforeEveryGet ==
    /\ \A k \in GetEvents :
          IF ConfiguredWait > 0
          THEN /\ k > 1
               /\ timeline[k - 1] = [op |-> "sleep", pos |-> timeline[k].pos,
                                     tenths |-> ConfiguredWait]
          ELSE k = 1 \/ timeline[k - 1].op # "sleep"
    /\ \A k \in SleepEvents :
          /\ k < Len(timeline)
          /\ timeline[k + 1].op = "get"
          /\ timeline[k + 1].pos = timeline[k].pos
    /\ Cardinality(GetEvents) = Len(attempts)
    /\ gets = Len(attempts)
    /\ \A a \in DOMAIN attempts :
          \E k \in GetEvents : timeline[k].pos = attempts[a].pos

\* a configured delay of two seconds, two URLs, the first fetch failing
WaitBeforeEveryGetWitness ==
    /\ config.rate_limit_delay = <<20>>
    /\ Len(attempts) = 2
    /\ attempts[1].outcome = "network"
    /\ timeline = <<[op |-> "sleep", pos |-> 1, tenths |-> 20],
                    [op |-> "get", pos |-> 1, tenths |-> 0],
                    [op |-> "sleep", pos |-> 2, tenths |-> 20],
                    [op |-> "get", pos |-> 2, tenths |-> 0]>>

\* C14: every started worker eventually emits scraping_complete, exactly
\* once whatever the outcome of its run, and the Start button is then
\* enabled again; the button is disabled only while a worker is active or
\* its scraping_complete is still queued (start_scraping returns with the
\* button enabled whenever it starts no worker), so a disabled button is
\* always enabled again later.
CompletionPending ==
    \E k \in DOMAIN eventQueue : eventQueue[k].signal = "scraping_complete"

WorkerActive == \E t \in Threads : workers[t] \in {"running", "finally"}

ButtonAlwaysReenabled ==
    /\ (WorkerActive \/ ~start_button) ~> (start_button /\ ~WorkerActive)
    /\ [](\A t \in Threads :
            completions[t] = IF workers[t] = "finished" THEN 1 ELSE 0)
    /\ [](~start_button => WorkerActive \/ CompletionPending)

\* a worker whose run ended in an exception outside the scraper's own
\* classes has completed, and the button is enabled again
ButtonAlwaysReenabledWitness ==
    /\ workers[1] = "finished"
    /\ completions[1] = 1
    /\ eventQueue = <<>>
    /\ start_button
    /\ \E k \in DOMAIN log_output : log_output[k] = "Unexpected error"

\* C11: every failure of a run puts a message on the status sink, and every
\* ConfigError, LoginError or ScraperError raised during the run ends run()
\* and reaches its caller as that error.
HasMessage(text) == \E k \in DOMAIN status : status[k] = text

PageFailureMessages == {"Network error", "Parsing error", "Unexpected parsing error"}

\* the part about messages: a failed page attempt and a failed run each
\* left a line on the sink (for an error raised by __init__ or login the
\* line is the one run_scraper_thread's except clause emits)
EveryFailureHasMessage ==
    /\ \A k \in DOMAIN attempts :
          attempts[k].outcome # "ok" => \E text \in PageFailureMessages : HasMessage(text)
    /\ (error # "none" /\ workers[1] # "running") =>
          /\ error \in {"ConfigError", "LoginError", "ScraperError"}
          /\ HasMessage("Scraper error")

EveryFailureReportedFatalOnesRaised ==
    /\ EveryFailureHasMessage
    /\ \A k \in DOMAIN attempts :
          attempts[k].outcome \in {"ConfigError", "LoginError", "ScraperError"} =>
            /\ error = attempts[k].outcome
            /\ pc # "loop"
====
